---- MODULE Spec2Model ----
(***************************************************************************)
(* A model of Ninju (src/src/ninju.py): the session object with its        *)
(* statement log, command registries, pool registry and name counter,      *)
(* the reference algebra (_Files, _Target) and generation.                 *)
(*                                                                         *)
(* Python values are records of one shape, [k, s, n, items]: k is the      *)
(* Python type, s a string payload, n an integer payload and items the     *)
(* elements of a collection.  Path tokens are strings.  A token that is    *)
(* not a str in Python (a _Target wrapped by as_list, a tuple) is recorded *)
(* by what str() gives for it, which is how every consumer of a token      *)
(* reads it (lines 181, 207, 220, 484).                                    *)
(***************************************************************************)
EXTENDS Integers, Sequences, FiniteSets, TLC

VARIABLES
    seq,          \* Ninju._seq: the statement log
    name_count,   \* Ninju._name_count
    cmds,         \* Ninju._cmds: name -> the rule its build command closes over
    exec_cmds,    \* Ninju._exec_cmds: name -> the rule its exec command closes over
    pools,        \* Ninju._pools: the pool names declared so far
    issued,       \* history: the names _gen_name has returned, in order
    ret,          \* the value the last call returned
    err,          \* the exception the last call raised, or "none"
    lastCall,     \* history: the last call and its arguments
    out,          \* the calls the last generation made on the writer
    file          \* the output file of the last generation: none, open, closed

vars == <<seq, name_count, cmds, exec_cmds, pools, issued, ret, err, lastCall, out, file>>

(***************************************************************************)
(* Bounds of the model.                                                    *)
(***************************************************************************)
MaxLog == 8        \* the general session stops appending at this log length
MaxPoolLog == 11   \* the pool session stops appending at this log length
MaxOutLog == 9     \* the output session stops appending at this log length
MaxArgs == 4       \* the most arguments of one files(...) call
MaxRebindLog == 9  \* the rebinding session stops appending at this log length

(***************************************************************************)
(* Python values.                                                          *)
(***************************************************************************)
None == [k |-> "None", s |-> "", n |-> 0, items |-> <<>>]

Text(s) == [k |-> "str", s |-> s, n |-> 0, items |-> <<>>]

Num(i) == [k |-> "int", s |-> "", n |-> i, items |-> <<>>]

List(items) == [k |-> "list", s |-> "", n |-> 0, items |-> items]

Tuple(items) == [k |-> "tuple", s |-> "", n |-> 0, items |-> items]

\* a _Files object: its files attribute
FilesObj(files) == [k |-> "_Files", s |-> "", n |-> 0, items |-> files]

\* a _Target object: its target attribute
TargetObj(target) == [k |-> "_Target", s |-> target, n |-> 0, items |-> <<>>]

\* Python truthiness, as `not outputs` reads it: _Files and _Target define
\* neither __bool__ nor __len__, so they are always true.
Truthy(v) ==
    CASE v.k = "None" -> FALSE
      [] v.k = "str" -> v.s # ""
      [] v.k = "int" -> v.n # 0
      [] v.k \in {"list", "tuple"} -> v.items # <<>>
      [] OTHER -> TRUE

RECURSIVE ReprItems(_)
ReprItems(items) ==
    IF items = <<>> THEN ""
    ELSE "'" \o Head(items) \o "'"
         \o (IF Len(items) = 1 THEN "" ELSE ", " \o ReprItems(Tail(items)))

\* str(o) of a value that lands in a token list
PyStr(v) ==
    CASE v.k = "str" -> v.s
      [] v.k = "_Target" -> v.s
      [] v.k = "int" -> ToString(v.n)
      [] v.k = "tuple" ->
            "(" \o ReprItems(v.items) \o (IF Len(v.items) = 1 THEN "," ELSE "") \o ")"
      [] v.k \in {"list", "_Files"} -> "[" \o ReprItems(v.items) \o "]"
      [] OTHER -> "None"

(***************************************************************************)
(* Module constants and the host.                                          *)
(***************************************************************************)
NINJU_VERSION == "0.1.0"

NINJU_URL == "https://github.com/frm-adiputra/Ninju"

NINJA_REQUIRED_VERSION == "1.7"

NINJU_MODULE_PATH == "/lib/ninju.py"

NINJA_SYNTAX_MODULE_PATH == "/lib/ninja_syntax.py"

\* the invoking configuration script (self._file) and the constructor defaults
ScriptFile == "/proj/build.py"

build_file == "build.ninja"

build_dir == ".builddir"

\* the executables the host's PATH holds
OnPath == {"cc", "sh"}

\* shutil.which(executable), with the fallback of lines 75-78: an absolute
\* path is returned as it is, a name on PATH resolves, any other name is
\* kept as written (with a warning).
executable_path(executable) ==
    IF executable \in OnPath THEN "/usr/bin/" \o executable ELSE executable

\* os.path.join('${root}', name)
root(name) == "${root}/" \o name

(***************************************************************************)
(* Statements.                                                             *)
(***************************************************************************)
_NVar(name, value) ==
    [kind |-> "_NVar", name |-> name, value |-> value, indent |-> 0]

_NPool(name, depth) ==
    [kind |-> "_NPool", name |-> name, depth |-> depth]

_NBuildRule(name, executable, args, description, generator, pool) ==
    [kind |-> "_NBuildRule", name |-> name, executable |-> executable,
     args |-> args, description |-> description, generator |-> generator,
     pool |-> pool, executable_path |-> executable_path(executable)]

_NExecRule(name, executable, args, description) ==
    [kind |-> "_NExecRule", name |-> name, executable |-> executable,
     args |-> args, description |-> description,
     executable_path |-> executable_path(executable)]

_NBuild(outputs, rule, inputs, implicit) ==
    [kind |-> "_NBuild", outputs |-> outputs, rule |-> rule,
     inputs |-> inputs, implicit |-> implicit]

_NPhony(name, inputs) ==
    [kind |-> "_NPhony", name |-> name, inputs |-> inputs]

_NDefault(targets) ==
    [kind |-> "_NDefault", targets |-> targets]

(***************************************************************************)
(* The reference algebra: _Files.__init__.                                 *)
(***************************************************************************)
\* the tokens one constructor argument contributes (the body of the loop)
FilesOfDropTarget(f) ==
    CASE f.k = "None" -> <<>>
      [] f.k = "_Files" -> f.items
      [] f.k = "_Target" -> <<>>
      [] f.k = "list" -> f.items
      [] f.k = "tuple" -> f.items
      [] OTHER -> <<PyStr(f)>>

FilesOf(f) ==
    CASE f.k = "None" -> <<>>
      [] f.k = "_Files" -> f.items
      [] f.k = "_Target" -> <<f.s>>
      [] f.k = "list" -> f.items
      [] f.k = "tuple" -> f.items
      [] OTHER -> <<PyStr(f)>>

RECURSIVE FilesTokens(_)
FilesTokens(files) ==
    IF files = <<>> THEN <<>>
    ELSE FilesOf(Head(files)) \o FilesTokens(Tail(files))

\* a Python list of str as the argument list f(*outs)
Texts(tokens) == [i \in 1..Len(tokens) |-> Text(tokens[i])]

\* _Files(ninju, *files), which is also Ninju.files(*args)
_Files(files) == FilesObj(FilesTokens(files))

(***************************************************************************)
(* The session: a record of the five attributes and the name history.      *)
(***************************************************************************)
Session ==
    [seq |-> seq, name_count |-> name_count, cmds |-> cmds,
     exec_cmds |-> exec_cmds, pools |-> pools, issued |-> issued]

\* the attributes as lines 316-322 set them
NewSession ==
    [seq |-> <<>>, name_count |-> 0, cmds |-> <<>>, exec_cmds |-> <<>>,
     pools |-> {}, issued |-> <<>>]

\* what a call leaves: the session, the value returned, the exception raised
Result(n, r, e) == [n |-> n, ret |-> r, err |-> e]

UnitFormat(index) == "${builddir}" \o "/.ninju_" \o ToString(index) \o ".tmp"

\* Ninju._gen_name with a counter that is not advanced
_gen_name_stuck(n) ==
    [n |-> [n EXCEPT !.issued = Append(@, UnitFormat(n.name_count + 1))],
     name |-> UnitFormat(n.name_count + 1)]

\* Ninju._gen_name
_gen_name(n) ==
    [n |-> [n EXCEPT !.name_count = @ + 1,
                     !.issued = Append(@, UnitFormat(n.name_count + 1))],
     name |-> UnitFormat(n.name_count + 1)]

\* the loop of lines 462-465: count calls of gen_name (none when count <= 0)
RECURSIVE GenNames(_, _)
GenNames(n, count) ==
    IF count <= 0 THEN [n |-> n, outs |-> <<>>]
    ELSE LET g == _gen_name(n)
             r == GenNames(g.n, count - 1)
         IN [n |-> r.n, outs |-> <<g.name>> \o r.outs]

\* ninja_syntax.as_list
as_list(input) ==
    CASE input.k = "None" -> <<>>
      [] input.k = "list" -> input.items
      [] OTHER -> <<PyStr(input)>>

\* _normalize_outputs testing `outputs is None` in place of `not outputs`
_normalize_outputs_none_first(outputs, n) ==
    IF outputs.k = "None"
    THEN LET g == _gen_name(n) IN [n |-> g.n, outs |-> <<g.name>>]
    ELSE IF outputs.k = "int" THEN GenNames(n, outputs.n)
    ELSE IF outputs.k = "_Files" THEN [n |-> n, outs |-> outputs.items]
    ELSE IF outputs.k = "list" THEN [n |-> n, outs |-> outputs.items]
    ELSE [n |-> n, outs |-> as_list(outputs)]

_normalize_outputs(outputs, n) ==
    IF ~Truthy(outputs)
    THEN LET g == _gen_name(n) IN [n |-> g.n, outs |-> <<g.name>>]
    ELSE IF outputs.k = "int" THEN GenNames(n, outputs.n)
    ELSE IF outputs.k = "_Files" THEN [n |-> n, outs |-> outputs.items]
    ELSE IF outputs.k = "list" THEN [n |-> n, outs |-> outputs.items]
    ELSE [n |-> n, outs |-> as_list(outputs)]

_is_single_output(t) ==
    ~ \/ (t.k = "_Files" /\ Len(t.items) # 1)
      \/ (t.k \in {"list", "tuple"} /\ Len(t.items) # 1)

\* Ninju.var
var(n, key, value) ==
    Result([n EXCEPT !.seq = Append(@, _NVar(key, value))],
           Text("${" \o key \o "}"), "none")

PoolName(depth) == "pool_" \o ToString(depth)

\* Ninju._setup_pool without the lookup in _pools
_setup_pool_uncached(n, pool) ==
    IF pool.k = "None" THEN Result(n, None, "none")
    ELSE IF pool.k = "int"
    THEN IF pool.n < 1 THEN Result(n, None, "ConfigurationError")
         ELSE Result([n EXCEPT !.seq = Append(@, _NPool(PoolName(pool.n), pool.n)),
                               !.pools = @ \cup {PoolName(pool.n)}],
                     Text(PoolName(pool.n)), "none")
    ELSE IF pool = Text("console") THEN Result(n, pool, "none")
    ELSE Result(n, None, "ConfigurationError")

\* Ninju._setup_pool returning any string unchanged, as it does "console"
_setup_pool_any_name(n, pool) ==
    IF pool.k = "None" THEN Result(n, None, "none")
    ELSE IF pool.k = "int"
    THEN IF pool.n < 1 THEN Result(n, None, "ConfigurationError")
         ELSE IF PoolName(pool.n) \notin n.pools
              THEN Result([n EXCEPT !.seq = Append(@, _NPool(PoolName(pool.n), pool.n)),
                                    !.pools = @ \cup {PoolName(pool.n)}],
                          Text(PoolName(pool.n)), "none")
              ELSE Result(n, Text(PoolName(pool.n)), "none")
    ELSE IF pool.k = "str" THEN Result(n, pool, "none")
    ELSE Result(n, None, "ConfigurationError")

\* Ninju._setup_pool: ret is the pool name (a str) or None
_setup_pool(n, pool) ==
    IF pool.k = "None" THEN Result(n, None, "none")
    ELSE IF pool.k = "int"
    THEN IF pool.n < 1 THEN Result(n, None, "ConfigurationError")
         ELSE IF PoolName(pool.n) \notin n.pools
              THEN Result([n EXCEPT !.seq = Append(@, _NPool(PoolName(pool.n), pool.n)),
                                    !.pools = @ \cup {PoolName(pool.n)}],
                          Text(PoolName(pool.n)), "none")
              ELSE Result(n, Text(PoolName(pool.n)), "none")
    ELSE IF pool = Text("console") THEN Result(n, pool, "none")
    ELSE Result(n, None, "ConfigurationError")

\* Ninju.cmd binding the command without logging the rule
cmd_unlogged(n, name, executable, args, description, generator, pool) ==
    LET p == _setup_pool(n, pool)
        v == _NBuildRule(name, executable, args, description, generator, p.ret)
    IN IF p.err # "none" THEN Result(n, None, p.err)
       ELSE Result([p.n EXCEPT !.cmds = (name :> v) @@ @], None, "none")

\* Ninju.cmd appending the rule before the pool definition it asked for
cmd_pool_after_rule(n, name, executable, args, description, generator, pool) ==
    LET p == _setup_pool(n, pool)
        v == _NBuildRule(name, executable, args, description, generator, p.ret)
    IN IF p.err # "none" THEN Result(n, None, p.err)
       ELSE Result([p.n EXCEPT !.seq = Append(n.seq, v)
                                       \o SubSeq(@, Len(n.seq) + 1, Len(@)),
                               !.cmds = (name :> v) @@ @],
                   None, "none")

\* Ninju.cmd keeping the command a name is already bound to
cmd_keep_first_binding(n, name, executable, args, description, generator, pool) ==
    LET p == _setup_pool(n, pool)
        v == _NBuildRule(name, executable, args, description, generator, p.ret)
    IN IF p.err # "none" THEN Result(n, None, p.err)
       ELSE Result([p.n EXCEPT !.seq = Append(@, v),
                               !.cmds = @ @@ (name :> v)],
                   None, "none")

\* Ninju.cmd
cmd(n, name, executable, args, description, generator, pool) ==
    LET p == _setup_pool(n, pool)
        v == _NBuildRule(name, executable, args, description, generator, p.ret)
    IN IF p.err # "none" THEN Result(n, None, p.err)
       ELSE Result([p.n EXCEPT !.seq = Append(@, v),
                               !.cmds = (name :> v) @@ @],
                   None, "none")

\* Ninju.exec_cmd binding the command without logging the rule
exec_cmd_unlogged(n, name, executable, args, description) ==
    LET v == _NExecRule(name, executable, args, description)
    IN Result([n EXCEPT !.exec_cmds = (name :> v) @@ @], None, "none")

\* Ninju.exec_cmd
exec_cmd(n, name, executable, args, description) ==
    LET v == _NExecRule(name, executable, args, description)
    IN Result([n EXCEPT !.seq = Append(@, v),
                        !.exec_cmds = (name :> v) @@ @],
              None, "none")

\* the list outs as the arguments of ninju.files(*outs): as_list wraps a
\* value that is no list (a tuple, a str, a _Target) as the one element of
\* outs, and files() takes that element as it is
OutsArgs(outputs, outs) ==
    IF Truthy(outputs) /\ outputs.k \notin {"int", "_Files", "list"}
    THEN <<outputs>>
    ELSE Texts(outs)

\* build_fn without the executable among the implicit inputs
build_fn_plain_implicit(_self, n, inputs, outputs, implicit) ==
    LET o == _normalize_outputs(outputs, n)
        b == _NBuild(o.outs, _self.name, inputs, _Files(<<implicit>>))
    IN Result([o.n EXCEPT !.seq = Append(@, b)],
              _Files(OutsArgs(outputs, o.outs)), "none")

\* the closure _NBuildRule.build_fn returns, for the rule _self
build_fn(_self, n, inputs, outputs, implicit) ==
    LET o == _normalize_outputs(outputs, n)
        b == _NBuild(o.outs, _self.name, inputs,
                     _Files(<<Text(_self.executable_path), implicit>>))
    IN Result([o.n EXCEPT !.seq = Append(@, b)],
              _Files(OutsArgs(outputs, o.outs)), "none")

\* the closure _NExecRule.exec_fn returns, for the rule _self
exec_fn(_self, n, target, inputs) ==
    IF ~_is_single_output(target) THEN Result(n, None, "ConfigurationError")
    ELSE LET o == _normalize_outputs(target, n)
             b == _NBuild(o.outs, _self.name, inputs, None)
         IN Result([o.n EXCEPT !.seq = Append(@, b)],
                   _Files(<<target>>), "none")

\* _Files.__getattr__ answering an unknown name with a command that does
\* nothing
Files_getattr_silent(n, p, name, outputs, implicit) ==
    IF name \in DOMAIN n.cmds
    THEN build_fn(n.cmds[name], n, List(p), outputs, implicit)
    ELSE Result(n, None, "none")

\* _Files.__getattr__(name)(outputs=..., implicit=...) on a _Files whose
\* files attribute is p
Files_getattr(n, p, name, outputs, implicit) ==
    IF name \in DOMAIN n.cmds
    THEN build_fn(n.cmds[name], n, List(p), outputs, implicit)
    ELSE Result(n, None, "AttributeError")

\* _Target.__getattr__(name)(inputs=...) on a _Target whose target is t
Target_getattr(n, t, name, inputs) ==
    IF name \in DOMAIN n.exec_cmds
    THEN exec_fn(n.exec_cmds[name], n, t, inputs)
    ELSE Result(n, None, "AttributeError")

\* _Target.phony
phony(n, target, inputs) ==
    Result([n EXCEPT !.seq = Append(@, _NPhony(target, _Files(<<inputs>>)))],
           None, "none")

\* Ninju.default keeping only the latest default declaration in the log
default_replacing(n, targets) ==
    Result([n EXCEPT !.seq = Append(SelectSeq(@, LAMBDA s : s.kind # "_NDefault"),
                                    _NDefault(_Files(targets)))],
           None, "none")

\* Ninju.default(*targets)
default(n, targets) ==
    Result([n EXCEPT !.seq = Append(@, _NDefault(_Files(targets)))],
           None, "none")

\* Ninju.__init__ declaring the build directory before the root
Ninju_init_builddir_first ==
    LET r1 == var(NewSession, "ninja_required_version", NINJA_REQUIRED_VERSION)
        r2 == var(r1.n, "builddir", root(build_dir))
        r3 == var(r2.n, "root", ".")
        r4 == cmd(r3.n, "configure", ScriptFile, None,
                  Text("Regenerate ninja build file"), TRUE, None)
        r5 == Files_getattr(r4.n, _Files(<<>>).items, "configure",
                            _Files(<<Text(root(build_file))>>),
                            List(<<NINJU_MODULE_PATH, NINJA_SYNTAX_MODULE_PATH>>))
    IN r5.n

\* Ninju.__init__ after the directory guard has passed or is bypassed
Ninju_init ==
    LET r1 == var(NewSession, "ninja_required_version", NINJA_REQUIRED_VERSION)
        r2 == var(r1.n, "root", ".")
        r3 == var(r2.n, "builddir", root(build_dir))
        r4 == cmd(r3.n, "configure", ScriptFile, None,
                  Text("Regenerate ninja build file"), TRUE, None)
        r5 == Files_getattr(r4.n, _Files(<<>>).items, "configure",
                            _Files(<<Text(root(build_file))>>),
                            List(<<NINJU_MODULE_PATH, NINJA_SYNTAX_MODULE_PATH>>))
    IN r5.n

(***************************************************************************)
(* Generation: each statement's write(writer), and the walk of the log.    *)
(***************************************************************************)
_as_string_list(t) == IF t.k = "None" THEN None ELSE List(t.items)

\* the command line both rule kinds hand to writer.rule
command(task) ==
    IF task.args # None THEN task.executable_path \o " " \o task.args.s
    ELSE task.executable_path

\* task.write(writer): the call made on the writer, or the exception raised
write(task) ==
    CASE task.kind = "_NVar" ->
            [err |-> "none",
             call |-> [fn |-> "variable", key |-> task.name, value |-> task.value,
                       indent |-> task.indent]]
      [] task.kind = "_NPool" ->
            [err |-> "none",
             call |-> [fn |-> "pool", name |-> task.name, depth |-> task.depth]]
      [] task.kind = "_NBuildRule" ->
            [err |-> "none",
             call |-> [fn |-> "rule", name |-> task.name, command |-> command(task),
                       description |-> task.description,
                       generator |-> task.generator, pool |-> task.pool]]
      [] task.kind = "_NExecRule" ->
            [err |-> "none",
             call |-> [fn |-> "rule", name |-> task.name, command |-> command(task),
                       description |-> task.description,
                       generator |-> FALSE, pool |-> Text("console")]]
      [] task.kind = "_NBuild" ->
            IF task.outputs = <<>>
            THEN [err |-> "GeneratorError", call |-> [fn |-> "none"]]
            ELSE [err |-> "none",
                  call |-> [fn |-> "build", outputs |-> task.outputs,
                            rule |-> task.rule,
                            inputs |-> _as_string_list(task.inputs),
                            implicit |-> _as_string_list(task.implicit)]]
      [] task.kind = "_NPhony" ->
            [err |-> "none",
             call |-> [fn |-> "build", outputs |-> task.name, rule |-> "phony",
                       inputs |-> List(task.inputs.items), implicit |-> None]]
      [] OTHER ->
            [err |-> "none",
             call |-> [fn |-> "default", paths |-> task.targets.items]]

\* one turn of the loop of lines 451-454 that writes a build edge twice
WriteTaskTwice(task, newline) ==
    IF write(task).err # "none" THEN [err |-> write(task).err, calls |-> <<>>]
    ELSE [err |-> "none",
          calls |-> <<write(task).call>>
                    \o (IF task.kind = "_NBuild" THEN <<write(task).call>> ELSE <<>>)
                    \o (IF newline THEN <<[fn |-> "newline"]>> ELSE <<>>)]

\* one turn of the loop of lines 451-454: the calls made, and the exception
WriteTask(task, newline) ==
    IF write(task).err # "none" THEN [err |-> write(task).err, calls |-> <<>>]
    ELSE [err |-> "none",
          calls |-> <<write(task).call>>
                    \o (IF newline THEN <<[fn |-> "newline"]>> ELSE <<>>)]

\* the loop of lines 451-454 over the tasks from position i on
RECURSIVE WriteTasks(_, _, _)
WriteTasks(tasks, i, newline) ==
    IF i > Len(tasks) THEN [err |-> "none", calls |-> <<>>]
    ELSE LET w == WriteTask(tasks[i], newline)
         IN IF w.err # "none" THEN w
            ELSE LET r == WriteTasks(tasks, i + 1, newline)
                 IN [err |-> r.err, calls |-> w.calls \o r.calls]

\* Ninju._generate: the header, then the walk
_generate(n, newline) ==
    LET w == WriteTasks(n.seq, 1, newline)
    IN [err |-> w.err,
        calls |-> <<[fn |-> "comment",
                     text |-> "This file is generated by Ninju v" \o NINJU_VERSION
                              \o " (" \o NINJU_URL \o ")"],
                    [fn |-> "newline"]>> \o w.calls]

(***************************************************************************)
(* The state after construction.                                           *)
(***************************************************************************)
Init ==
    /\ seq = Ninju_init.seq
    /\ name_count = Ninju_init.name_count
    /\ cmds = Ninju_init.cmds
    /\ exec_cmds = Ninju_init.exec_cmds
    /\ pools = Ninju_init.pools
    /\ issued = Ninju_init.issued
    /\ ret = None
    /\ err = "none"
    /\ lastCall = [op |-> "Ninju"]
    /\ out = <<>>
    /\ file = "none"

(***************************************************************************)
(* The calls of client code.  Each takes the sets its arguments are drawn  *)
(* from and the log length at which the session stops appending.           *)
(***************************************************************************)
\* the effect of a call that returned r
Do(r, call) ==
    /\ seq' = r.n.seq
    /\ name_count' = r.n.name_count
    /\ cmds' = r.n.cmds
    /\ exec_cmds' = r.n.exec_cmds
    /\ pools' = r.n.pools
    /\ issued' = r.n.issued
    /\ ret' = r.ret
    /\ err' = r.err
    /\ lastCall' = call
    /\ UNCHANGED <<out, file>>

\* the _Files a lookup can be made on: a fresh one, or the one just returned
Refs(Fresh) == Fresh \cup (IF ret.k = "_Files" THEN {ret} ELSE {})

VarCall(Keys, Values, Max) ==
    \E key \in Keys, value \in Values :
        /\ Len(seq) < Max
        /\ Do(var(Session, key, value),
              [op |-> "var", key |-> key, value |-> value])

CmdCall(Names, Execs, Pools, Max) ==
    \E name \in Names, e \in Execs, pool \in Pools :
        /\ Len(seq) + 2 <= Max
        /\ Do(cmd(Session, name, e.executable, e.args, None, FALSE, pool),
              [op |-> "cmd", name |-> name, executable |-> e.executable,
               pool |-> pool])

ExecCmdCall(Names, Execs, Max) ==
    \E name \in Names, e \in Execs :
        /\ Len(seq) < Max
        /\ Do(exec_cmd(Session, name, e.executable, e.args, None),
              [op |-> "exec_cmd", name |-> name, executable |-> e.executable])

\* ref.<name>(outputs=outputs, implicit=implicit) on a _Files ref
FilesLookup(Fresh, Names, Outputs, Implicits, Max) ==
    \E ref \in Refs(Fresh), name \in Names, outputs \in Outputs,
       implicit \in Implicits :
        /\ Len(seq) < Max
        /\ Do(Files_getattr(Session, ref.items, name, outputs, implicit),
              [op |-> "build", ref |-> ref, name |-> name, outputs |-> outputs,
               implicit |-> implicit])

\* ninju.target(t).<name>(inputs=inputs)
TargetLookup(Targets, Names, Inputs, Max) ==
    \E t \in Targets, name \in Names, inputs \in Inputs :
        /\ Len(seq) < Max
        /\ Do(Target_getattr(Session, t, name, inputs),
              [op |-> "exec", target |-> t, name |-> name, inputs |-> inputs])

\* ninju.target(t).phony(inputs)
PhonyCall(Targets, Inputs, Max) ==
    \E t \in Targets, inputs \in Inputs :
        /\ Len(seq) < Max
        /\ Do(phony(Session, t, inputs),
              [op |-> "phony", target |-> t, inputs |-> inputs])

DefaultCall(TargetLists, Max) ==
    \E targets \in TargetLists :
        /\ Len(seq) < Max
        /\ Do(default(Session, targets),
              [op |-> "default", targets |-> targets])

\* Ninju.generate: open, _generate, close; an exception of a write leaves
\* close() uncalled
GenerateCall ==
    \E newline \in BOOLEAN :
        LET g == _generate(Session, newline)
        IN /\ out' = g.calls
           /\ file' = IF g.err = "none" THEN "closed" ELSE "open"
           /\ ret' = None
           /\ err' = g.err
           /\ lastCall' = [op |-> "generate", newline |-> newline]
           /\ UNCHANGED <<seq, name_count, cmds, exec_cmds, pools, issued>>

(***************************************************************************)
(* The general session: every call, over small argument sets.              *)
(***************************************************************************)
Compilers == {[executable |-> "cc", args |-> Text("-c")],
              [executable |-> "tool", args |-> None]}

Shells == {[executable |-> "sh", args |-> None]}

RuleNames == {"compile"}

ExecNames == {"run"}

Next ==
    \/ VarCall({"cflags"}, {"-O2"}, MaxLog)
    \/ CmdCall(RuleNames, Compilers, {None, Num(2)}, MaxLog)
    \/ ExecCmdCall(ExecNames, Shells, MaxLog)
    \/ FilesLookup({_Files(<<Text("a.c")>>)}, RuleNames \cup {"configure"},
                   {None, _Files(<<>>)}, {None, List(<<"a.h">>)}, MaxLog)
    \/ TargetLookup({Text("all"), List(<<"x", "y">>)}, ExecNames \cup {"configure"},
                    {None}, MaxLog)
    \/ PhonyCall({"all"}, {List(<<"a.c">>)}, MaxLog)
    \/ DefaultCall({<<Text("all")>>}, MaxLog)
    \/ GenerateCall

Spec == Init /\ [][Next]_vars

(***************************************************************************)
(* The pool session: rule registrations over every kind of pool request.   *)
(***************************************************************************)
PoolRequests ==
    {None, Num(-1), Num(0), Num(2), Num(4), Text("console"), Text("fast")}

NextPools ==
    CmdCall({"compile"}, {[executable |-> "cc", args |-> None]},
            PoolRequests, MaxPoolLog)

SpecPools == Init /\ [][NextPools]_vars

(***************************************************************************)
(* The output session: a session in which client code has registered the   *)
(* build rule "compile" and the exec rule "run", then build and exec       *)
(* commands over every kind of outputs and target value.                   *)
(***************************************************************************)
Registered ==
    exec_cmd(cmd(Ninju_init, "compile", "cc", None, None, FALSE, None).n,
             "run", "sh", None, None).n

InitOutputs ==
    /\ seq = Registered.seq
    /\ name_count = Registered.name_count
    /\ cmds = Registered.cmds
    /\ exec_cmds = Registered.exec_cmds
    /\ pools = Registered.pools
    /\ issued = Registered.issued
    /\ ret = None
    /\ err = "none"
    /\ lastCall = [op |-> "exec_cmd", name |-> "run", executable |-> "sh"]
    /\ out = <<>>
    /\ file = "none"

OutputValues ==
    {None, Num(-1), Num(0), Num(2), Text(""), Text("o"), List(<<>>),
     List(<<"o", "p">>), FilesObj(<<>>), FilesObj(<<"o">>), TargetObj("t"),
     Tuple(<<"o", "p">>)}

TargetValues ==
    {None, Num(2), Text("all"), List(<<>>), List(<<"x">>),
     List(<<"x", "y">>), FilesObj(<<>>), FilesObj(<<"x">>),
     FilesObj(<<"x", "y">>), Tuple(<<"x">>), Tuple(<<"x", "y">>)}

NextOutputs ==
    \/ FilesLookup({_Files(<<Text("a.c")>>)}, {"compile"}, OutputValues,
                   {None}, MaxOutLog)
    \/ TargetLookup(TargetValues, {"run"}, {None, List(<<"a.c">>)}, MaxOutLog)
    \/ GenerateCall

SpecOutputs == InitOutputs /\ [][NextOutputs]_vars

(***************************************************************************)
(* The reference session: one files(...) call over every argument list.    *)
(***************************************************************************)
ArgValues ==
    {None, Text("a"), List(<<>>), List(<<"a", "b">>), FilesObj(<<"c">>),
     FilesObj(<<"a", "c">>), TargetObj("d"), TargetObj("a"),
     Tuple(<<"b", "a">>)}

ArgLists == UNION {[1..len -> ArgValues] : len \in 0..MaxArgs}

InitFiles ==
    /\ seq = Ninju_init.seq
    /\ name_count = Ninju_init.name_count
    /\ cmds = Ninju_init.cmds
    /\ exec_cmds = Ninju_init.exec_cmds
    /\ pools = Ninju_init.pools
    /\ issued = Ninju_init.issued
    /\ ret = None
    /\ err = "none"
    /\ lastCall \in {[op |-> "Ninju", args |-> args] : args \in ArgLists}
    /\ out = <<>>
    /\ file = "none"

\* Ninju.files(*args), on the argument list client code has at hand
FilesCall ==
    /\ lastCall.op = "Ninju"
    /\ ret' = _Files(lastCall.args)
    /\ err' = "none"
    /\ lastCall' = [op |-> "files", args |-> lastCall.args]
    /\ UNCHANGED <<seq, name_count, cmds, exec_cmds, pools, issued, out, file>>

NextFiles == FilesCall

SpecFiles == InitFiles /\ [][NextFiles]_vars

(***************************************************************************)
(* The rebinding session: a new session in which client code registers     *)
(* build rules under the names compile and configure, again and again with *)
(* different executables, and invokes the commands between registrations.  *)
(***************************************************************************)
NextRebind ==
    \/ CmdCall({"compile", "configure"}, Compilers, {None}, MaxRebindLog)
    \/ FilesLookup({_Files(<<Text("a.c")>>)}, {"compile", "configure"},
                   {None}, {None}, MaxRebindLog)

SpecRebind == Init /\ [][NextRebind]_vars

(***************************************************************************)
(* Claims.                                                                 *)
(***************************************************************************)
\* the statements among the calls made on the writer
Statements(calls) ==
    SelectSeq(calls, LAMBDA c : c.fn \notin {"comment", "newline"})

\* the writer call c is the emission of the statement task
Emits(c, task) ==
    CASE task.kind = "_NVar" ->
            c.fn = "variable" /\ c.key = task.name /\ c.value = task.value
      [] task.kind = "_NPool" ->
            c.fn = "pool" /\ c.name = task.name /\ c.depth = task.depth
      [] task.kind \in {"_NBuildRule", "_NExecRule"} ->
            c.fn = "rule" /\ c.name = task.name
      [] task.kind = "_NBuild" ->
            c.fn = "build" /\ c.rule = task.rule /\ c.outputs = task.outputs
      [] task.kind = "_NPhony" ->
            c.fn = "build" /\ c.rule = "phony" /\ c.outputs = task.name
      [] OTHER ->
            c.fn = "default" /\ c.paths = task.targets.items

\* C1: after generate, the i-th statement handed to the emitter is the
\* i-th statement of the log: the emitted statements are the log's first
\* ones in log order, the walk stops only at a statement whose write
\* raises, and a generation that raises nothing has emitted the whole log.
C1_EmittedInCallOrder ==
    lastCall.op = "generate" =>
        LET e == Statements(out)
        IN /\ Len(e) <= Len(seq)
           /\ \A i \in 1..Len(e) : Emits(e[i], seq[i])
           /\ (err = "none" => Len(e) = Len(seq))
           /\ (err # "none" =>
                 /\ Len(e) < Len(seq)
                 /\ seq[Len(e) + 1].kind = "_NBuild"
                 /\ seq[Len(e) + 1].outputs = <<>>)

\* a generation that raised nothing over a log holding, after the
\* bootstrap, a rule, an edge of it and a phony edge
C1_Witness ==
    /\ lastCall.op = "generate"
    /\ err = "none"
    /\ Len(seq) = 8
    /\ seq[6].kind = "_NBuildRule"
    /\ seq[7].kind = "_NBuild"
    /\ seq[8].kind = "_NPhony"
    /\ Len(Statements(out)) = 8

\* C2: every build edge of the log, from a build command or from an exec
\* command, comes after a rule definition with the name it references.
C2_EdgeAfterItsRule ==
    \A j \in 1..Len(seq) :
        seq[j].kind = "_NBuild" =>
            \E i \in 1..(j - 1) :
                /\ seq[i].kind \in {"_NBuildRule", "_NExecRule"}
                /\ seq[i].name = seq[j].rule

\* an edge of an exec command and an edge of a build command, both after
\* the bootstrap's
C2_Witness ==
    /\ Len(seq) = 8
    /\ seq[6].kind = "_NExecRule"
    /\ seq[7].kind = "_NBuild"
    /\ seq[7].rule = seq[6].name
    /\ seq[8].kind = "_NBuild"
    /\ seq[8].rule = "configure"

\* the positions of the log that hold a pool definition of this depth
PoolDefs(depth) ==
    {i \in 1..Len(seq) : seq[i].kind = "_NPool" /\ seq[i].depth = depth}

\* C3: the log holds at most one pool definition per depth, each named
\* pool_<depth>; a request for a positive depth d leaves exactly one
\* definition of d in the log, before the rule that asked for it, and the
\* rule carries the name pool_<d> whichever request it was.
C3_OnePoolDefPerDepth ==
    /\ \A i \in 1..Len(seq) :
          seq[i].kind = "_NPool" =>
              /\ PoolDefs(seq[i].depth) = {i}
              /\ seq[i].name = "pool_" \o ToString(seq[i].depth)
    /\ (lastCall.op = "cmd" /\ lastCall.pool.k = "int" /\ lastCall.pool.n >= 1) =>
          /\ err = "none"
          /\ Cardinality(PoolDefs(lastCall.pool.n)) = 1
          /\ \A i \in PoolDefs(lastCall.pool.n) : i < Len(seq)
          /\ seq[Len(seq)].kind = "_NBuildRule"
          /\ seq[Len(seq)].pool = Text("pool_" \o ToString(lastCall.pool.n))

\* depths 2, 4, 2 requested in that order: two pool definitions, pool_2 and
\* pool_4, and the first and third rule both reference pool_2
C3_Witness ==
    /\ Len(seq) = 10
    /\ seq[6] = _NPool("pool_2", 2)
    /\ seq[7].kind = "_NBuildRule" /\ seq[7].pool = Text("pool_2")
    /\ seq[8] = _NPool("pool_4", 4)
    /\ seq[9].kind = "_NBuildRule" /\ seq[9].pool = Text("pool_4")
    /\ seq[10].kind = "_NBuildRule" /\ seq[10].pool = Text("pool_2")
    /\ pools = {"pool_2", "pool_4"}

\* C4: the names the generator has issued are pairwise distinct; the
\* counter has advanced by exactly one per name issued, and the i-th name
\* issued carries index i, the first one index 1.
C4_IssuedNamesDistinct ==
    /\ name_count = Len(issued)
    /\ \A i \in 1..Len(issued) :
          issued[i] = "${builddir}/.ninju_" \o ToString(i) \o ".tmp"
    /\ \A i, j \in 1..Len(issued) : i # j => issued[i] # issued[j]

\* a build command that asked for two names, then an exec command that
\* asked for one: indices 1, 2 and 3
C4_Witness ==
    /\ Len(seq) = 9
    /\ seq[8].kind = "_NBuild" /\ seq[8].rule = "compile"
    /\ seq[9].kind = "_NBuild" /\ seq[9].rule = "run"
    /\ Len(issued) = 3
    /\ seq[8].outputs = <<issued[1], issued[2]>>
    /\ seq[9].outputs = <<issued[3]>>
    /\ name_count = 3

\* the last k names issued, oldest first
LastIssued(k) == SubSeq(issued, Len(issued) - k + 1, Len(issued))

Distinct(s) == \A i, j \in 1..Len(s) : i # j => s[i] # s[j]

\* the outputs of the edge the last call appended
NewOutputs == seq[Len(seq)].outputs

\* C5 as claimed: a build command's outputs are, in this precedence, one
\* generated name for None, N distinct generated names for an integer N,
\* the token list of a FileRef, a list as it is, and any other value as a
\* one-element list.
C5_Original ==
    (lastCall.op = "build" /\ err = "none") =>
        LET o == lastCall.outputs
        IN CASE o.k = "None" ->
                   Len(issued) >= 1 /\ NewOutputs = LastIssued(1)
             [] o.k = "int" ->
                   /\ Len(NewOutputs) = o.n
                   /\ Len(issued) >= o.n
                   /\ NewOutputs = LastIssued(o.n)
                   /\ Distinct(NewOutputs)
             [] o.k = "_Files" -> NewOutputs = o.items
             [] o.k = "list" -> NewOutputs = o.items
             [] OTHER -> NewOutputs = <<PyStr(o)>>

\* C5 as amended: None and every other false value (0, the empty string,
\* an empty list) give one generated name; a positive integer N gives N
\* distinct generated names and a negative one gives no output; a FileRef
\* gives its token list, empty or not; a non-empty list is used as it is;
\* any other value is wrapped as a one-element list.
C5_NormalizeByTruthThenType ==
    (lastCall.op = "build" /\ err = "none") =>
        LET o == lastCall.outputs
        IN CASE o \in {None, Num(0), Text(""), List(<<>>)} ->
                   Len(issued) >= 1 /\ NewOutputs = LastIssued(1)
             [] o.k = "int" /\ o.n >= 1 ->
                   /\ Len(NewOutputs) = o.n
                   /\ Len(issued) >= o.n
                   /\ NewOutputs = LastIssued(o.n)
                   /\ Distinct(NewOutputs)
             [] o.k = "int" /\ o.n < 0 -> NewOutputs = <<>>
             [] o.k = "_Files" -> NewOutputs = o.items
             [] o.k = "list" -> NewOutputs = o.items
             [] OTHER -> NewOutputs = <<PyStr(o)>>

\* two names for outputs=2, then one name for outputs=[]
C5_Witness ==
    /\ Len(seq) = 9
    /\ lastCall.op = "build"
    /\ lastCall.outputs = List(<<>>)
    /\ Len(issued) = 3
    /\ seq[8].outputs = <<issued[1], issued[2]>>
    /\ seq[9].outputs = <<issued[3]>>

\* what the claim lets one argument contribute to the token sequence
Contribution(f) ==
    IF f = None THEN <<>>
    ELSE IF f.k = "_Target" THEN <<f.s>>
    ELSE IF f.k \in {"_Files", "list", "tuple"} THEN f.items
    ELSE <<f.s>>

\* the number of tokens the first i arguments contribute
RECURSIVE Offset(_, _)
Offset(args, i) ==
    IF i = 0 THEN 0 ELSE Offset(args, i - 1) + Len(Contribution(args[i]))

ExecStep == lastCall'.op = "exec" /\ lastCall'.name \in DOMAIN exec_cmds

\* C7 as claimed: an exec command succeeds only when its target resolves to
\* exactly one name, so the edge it appends has exactly one output; when it
\* fails it raises ConfigurationError and leaves the log and the name
\* counter as they were.
C7_Original ==
    [][ExecStep =>
          /\ err' \in {"none", "ConfigurationError"}
          /\ err' = "ConfigurationError" =>
                seq' = seq /\ name_count' = name_count
          /\ err' = "none" =>
                /\ Len(seq') = Len(seq) + 1
                /\ seq'[Len(seq')].kind = "_NBuild"
                /\ Len(seq'[Len(seq')].outputs) = 1]_vars

\* the one name of a single target
TargetName(t) == IF t.k = "str" THEN t.s ELSE t.items[1]

\* a target that is one name: a non-empty string, or a list or FileRef of
\* one token
SingleTarget(t) ==
    \/ t.k = "str" /\ t.s # ""
    \/ t.k \in {"list", "_Files"} /\ Len(t.items) = 1

\* C8 as claimed: an exec command on a single target succeeds, appends
\* exactly one build edge whose only output is the target and whose rule is
\* the exec rule, and returns a TargetRef over the target's name.
C8_Original ==
    [][(ExecStep /\ SingleTarget(lastCall'.target)) =>
          /\ err' = "none"
          /\ seq' = Append(seq, seq'[Len(seq')])
          /\ seq'[Len(seq')].kind = "_NBuild"
          /\ seq'[Len(seq')].outputs = <<TargetName(lastCall'.target)>>
          /\ seq'[Len(seq')].rule = lastCall'.name
          /\ ret' = TargetObj(TargetName(lastCall'.target))]_vars

\* C9 as claimed: a build command given a zero-length outputs collection
\* raises GeneratorError at the call, so no build edge of the log has zero
\* outputs.
C9_Original ==
    /\ \A j \in 1..Len(seq) :
          seq[j].kind = "_NBuild" => seq[j].outputs # <<>>
    /\ (/\ lastCall.op = "build"
        /\ lastCall.name \in DOMAIN cmds
        /\ lastCall.outputs = FilesObj(<<>>)) => err = "GeneratorError"

\* the position of the latest build rule named name before position j
LatestRule(name, j) ==
    CHOOSE i \in 1..(j - 1) :
        /\ seq[i].kind = "_NBuildRule" /\ seq[i].name = name
        /\ \A h \in (i + 1)..(j - 1) :
              ~(seq[h].kind = "_NBuildRule" /\ seq[h].name = name)

InItems(token, items) == \E h \in 1..Len(items) : items[h] = token

\* C10: every edge a build command has appended lists, among its implicit
\* inputs, the resolved executable path of the rule registered under its
\* name at that time; and when a fresh session registers a build rule and
\* then invokes it with no outputs given, the log is the bootstrap, the
\* rule definition and one edge of that rule whose single output is the
\* first name the generator issues, index 1.
C10_FirstEdgeOfFreshSession ==
    /\ \A j \in 1..Len(seq) :
          (seq[j].kind = "_NBuild" /\ seq[j].rule \in DOMAIN cmds) =>
              /\ seq[j].implicit.k = "_Files"
              /\ InItems(seq[LatestRule(seq[j].rule, j)].executable_path,
                         seq[j].implicit.items)
    /\ (/\ Len(seq) = 7
        /\ seq[6].kind = "_NBuildRule"
        /\ lastCall.op = "build"
        /\ lastCall.name = seq[6].name
        /\ lastCall.outputs = None) =>
          /\ err = "none"
          /\ seq[7].kind = "_NBuild"
          /\ seq[7].rule = seq[6].name
          /\ issued = <<"${builddir}/.ninju_1.tmp">>
          /\ seq[7].outputs = issued
          /\ InItems(seq[6].executable_path, seq[7].implicit.items)

\* cmd("compile", "cc") then files("a.c").compile() in a fresh session
C10_Witness ==
    /\ Len(seq) = 7
    /\ seq[6].kind = "_NBuildRule"
    /\ seq[6].name = "compile"
    /\ seq[6].executable_path = "/usr/bin/cc"
    /\ lastCall.op = "build"
    /\ lastCall.ref = FilesObj(<<"a.c">>)
    /\ lastCall.outputs = None
    /\ seq[7].kind = "_NBuild"
    /\ seq[7].outputs = <<"${builddir}/.ninju_1.tmp">>
    /\ seq[7].implicit.items = <<"/usr/bin/cc">>
    /\ name_count = 1

\* the step is a successful call that declares something: a rule
\* registration, a build or exec command, a phony declaration
DeclareStep ==
    /\ lastCall'.op \in {"cmd", "exec_cmd", "build", "exec", "phony"}
    /\ err' = "none"

\* the step registers a build rule asking for a positive pool depth that
\* the pool registry does not hold yet
NewPoolStep ==
    /\ lastCall'.op = "cmd"
    /\ lastCall'.pool.k = "int"
    /\ lastCall'.pool.n >= 1
    /\ PoolName(lastCall'.pool.n) \notin pools

\* C11 as claimed: every successful declaring call (register build rule,
\* register exec rule, build command, exec command, phony) makes the log
\* exactly one statement longer.
C11_Original ==
    [][DeclareStep => Len(seq') = Len(seq) + 1]_vars

\* C11 as amended: every successful declaring call appends exactly one
\* statement, except the registration of a build rule that asks for a
\* positive pool depth not declared yet, which appends two: the pool
\* definition, then the rule.
C11_OneStatementPerDeclaration ==
    [][DeclareStep =>
          /\ SubSeq(seq', 1, Len(seq)) = seq
          /\ IF NewPoolStep
             THEN /\ Len(seq') = Len(seq) + 2
                  /\ seq'[Len(seq) + 1].kind = "_NPool"
                  /\ seq'[Len(seq) + 2].kind = "_NBuildRule"
             ELSE Len(seq') = Len(seq) + 1]_vars

\* a rule asking for depth 2 has appended two statements, and a build
\* command of that rule has appended one
C11_Witness ==
    /\ Len(seq) = 8
    /\ seq[6].kind = "_NPool"
    /\ seq[7].kind = "_NBuildRule" /\ seq[7].pool = Text("pool_2")
    /\ seq[8].kind = "_NBuild" /\ seq[8].rule = seq[7].name
    /\ lastCall.op = "build"
    /\ err = "none"

\* the step looks up, on a FileRef or a TargetRef, a name its registry
\* does not hold
UnknownLookupStep ==
    \/ lastCall'.op = "build" /\ lastCall'.name \notin DOMAIN cmds
    \/ lastCall'.op = "exec" /\ lastCall'.name \notin DOMAIN exec_cmds

\* C12: looking up an unregistered name on a FileRef or a TargetRef raises
\* AttributeError and leaves the log, both registries and the name counter
\* as they were; looking up a registered build-command name on a FileRef
\* invokes that command with the ref's tokens as the new edge's inputs.
C12_UnknownNameLeavesSessionAlone ==
    [][/\ UnknownLookupStep =>
             /\ err' = "AttributeError"
             /\ UNCHANGED <<seq, cmds, exec_cmds, name_count>>
       /\ (lastCall'.op = "build" /\ lastCall'.name \in DOMAIN cmds) =>
             /\ err' = "none"
             /\ Len(seq') = Len(seq) + 1
             /\ seq'[Len(seq')].kind = "_NBuild"
             /\ seq'[Len(seq')].rule = lastCall'.name
             /\ seq'[Len(seq')].inputs = List(lastCall'.ref.items)]_vars

\* files("a.c").configure() has appended an edge with input a.c, and then
\* the lookup of the unregistered name compile has failed
C12_Witness ==
    /\ Len(seq) = 6
    /\ seq[6].kind = "_NBuild"
    /\ seq[6].rule = "configure"
    /\ seq[6].inputs = List(<<"a.c">>)
    /\ lastCall.op = "build"
    /\ lastCall.name = "compile"
    /\ "compile" \notin DOMAIN cmds
    /\ err = "AttributeError"

\* C13 as claimed: a build command returns a FileRef whose tokens are the
\* outputs of the edge it has just appended, so when the next build command
\* is looked up on that FileRef, the second edge's inputs are the first
\* edge's outputs in the same order and the second edge sits right after
\* the first.
C13_Original ==
    [][(lastCall'.op = "build" /\ err' = "none") =>
          /\ ret' = FilesObj(seq'[Len(seq')].outputs)
          /\ (lastCall.op = "build" /\ err = "none" /\ lastCall'.ref = ret) =>
                /\ Len(seq') = Len(seq) + 1
                /\ seq'[Len(seq')].inputs = List(seq[Len(seq)].outputs)]_vars

\* the five statements of a new session, as the claim lists them
BootstrapLog(log) ==
    /\ Len(log) >= 5
    /\ log[1].kind = "_NVar"
    /\ log[1].name = "ninja_required_version" /\ log[1].value = "1.7"
    /\ log[2].kind = "_NVar"
    /\ log[2].name = "root" /\ log[2].value = "."
    /\ log[3].kind = "_NVar"
    /\ log[3].name = "builddir" /\ log[3].value = "${root}/.builddir"
    /\ log[4].kind = "_NBuildRule"
    /\ log[4].name = "configure" /\ log[4].generator = TRUE
    /\ log[5].kind = "_NBuild"
    /\ log[5].rule = "configure"
    /\ log[5].outputs = <<"${root}/build.ninja">>
    /\ InItems("/lib/ninju.py", log[5].implicit.items)
    /\ InItems("/lib/ninja_syntax.py", log[5].implicit.items)

\* C14: a new session's log is exactly five statements: the variables
\* ninja_required_version, root and builddir, the rule configure with the
\* generator flag, and one edge of configure whose output is the build file
\* and whose implicit inputs hold the engine module and the emitter module;
\* no later call changes any of the first five statements.
C14_BootstrapStaysFirst ==
    /\ Len(seq) = 5
    /\ BootstrapLog(seq)
    /\ [][SubSeq(seq', 1, 5) = SubSeq(seq, 1, 5)]_vars

\* a variable, a phony edge and a default declaration after the five
C14_Witness ==
    /\ Len(seq) = 8
    /\ BootstrapLog(seq)
    /\ seq[6].kind = "_NVar"
    /\ seq[7].kind = "_NPhony"
    /\ seq[8].kind = "_NDefault"

\* C15 as claimed: generation closes the output file on every path: after
\* the whole log is written, and also when the write of a statement raises.
C15_Original ==
    lastCall.op = "generate" => file = "closed"

\* a pool request that is neither None, nor "console", nor a positive
\* integer: zero, a negative integer, another string
BadPoolRequest(p) ==
    \/ p.k = "int" /\ p.n < 1
    \/ p.k = "str" /\ p.s # "console"

\* the step has appended to the log exactly one build rule whose pool
\* reference is ref, and no pool definition
AppendsRuleWithPool(ref) ==
    /\ err' = "none"
    /\ Len(seq') = Len(seq) + 1
    /\ SubSeq(seq', 1, Len(seq)) = seq
    /\ seq'[Len(seq')].kind = "_NBuildRule"
    /\ seq'[Len(seq')].pool = ref
    /\ pools' = pools

\* C16: registering a build rule resolves its pool request by case: None
\* gives no pool reference and appends no pool definition; "console" is
\* the rule's pool reference unchanged and appends no pool definition; zero,
\* a negative integer or another string raises ConfigurationError, and then
\* the log, the pool registry and the rule registry are as they were.
C16_PoolResolutionByCase ==
    [][lastCall'.op = "cmd" =>
          /\ lastCall'.pool = None => AppendsRuleWithPool(None)
          /\ lastCall'.pool = Text("console") =>
                AppendsRuleWithPool(Text("console"))
          /\ BadPoolRequest(lastCall'.pool) =>
                /\ err' = "ConfigurationError"
                /\ UNCHANGED <<seq, pools, cmds>>]_vars

\* a rule with no pool, a rule in the console pool, then a registration
\* asking for the pool "fast" that has failed
C16_Witness ==
    /\ Len(seq) = 7
    /\ seq[6].kind = "_NBuildRule" /\ seq[6].pool = None
    /\ seq[7].kind = "_NBuildRule" /\ seq[7].pool = Text("console")
    /\ pools = {}
    /\ lastCall.op = "cmd"
    /\ lastCall.pool = Text("fast")
    /\ err = "ConfigurationError"

\* C17 as claimed: TargetRef.phony(inputs) appends a phony edge from the
\* target's name to the flattened inputs, and declaring the same alias with
\* the same inputs again leaves the log as the first declaration left it:
\* the log never holds two equal phony edges.
C17_Original ==
    /\ (lastCall.op = "phony" /\ err = "none") =>
          /\ seq[Len(seq)].kind = "_NPhony"
          /\ seq[Len(seq)].name = lastCall.target
          /\ seq[Len(seq)].inputs = FilesObj(lastCall.inputs.items)
    /\ \A i, j \in 1..Len(seq) :
          (seq[i].kind = "_NPhony" /\ seq[j] = seq[i]) => i = j

\* C18: the log is append-only: across every step of the session, a
\* generation and a failing call included, the log before the step is a
\* prefix of the log after it.
C18_LogIsAppendOnly ==
    [][/\ Len(seq') >= Len(seq)
       /\ SubSeq(seq', 1, Len(seq)) = seq]_vars

\* a zero-output edge, a default declaration after it, and a generation
\* that has failed at the edge: the log still holds all eight statements
C18_Witness ==
    /\ Len(seq) = 8
    /\ seq[7].kind = "_NBuild" /\ seq[7].outputs = <<>>
    /\ seq[8].kind = "_NDefault"
    /\ lastCall.op = "generate"
    /\ err = "GeneratorError"

\* C19: every build rule of the log whose pool reference is a declared
\* pool's name, that is neither absent nor "console", sits at a later
\* position than a pool definition of that name.
C19_RuleAfterItsPool ==
    \A j \in 1..Len(seq) :
        (/\ seq[j].kind = "_NBuildRule"
         /\ seq[j].pool \notin {None, Text("console")}) =>
            \E i \in 1..(j - 1) :
                /\ seq[i].kind = "_NPool"
                /\ Text(seq[i].name) = seq[j].pool

\* pool_4 defined once, then a rule in pool_4, a rule in the console pool
\* and a second rule in pool_4
C19_Witness ==
    /\ Len(seq) = 9
    /\ seq[6] = _NPool("pool_4", 4)
    /\ seq[7].kind = "_NBuildRule" /\ seq[7].pool = Text("pool_4")
    /\ seq[8].kind = "_NBuildRule" /\ seq[8].pool = Text("console")
    /\ seq[9].kind = "_NBuildRule" /\ seq[9].pool = Text("pool_4")

\* C20: registering a build rule under a name that is already registered
\* appends one more rule definition of that name, leaving the log before it
\* as it was, and rebinds the name to the new rule; every edge a build
\* command appends carries, as its first implicit input, the resolved
\* executable path of the latest rule registered under its name.
C20_RebindingTakesLatestRule ==
    [][/\ (/\ lastCall'.op = "cmd"
           /\ err' = "none"
           /\ lastCall'.name \in DOMAIN cmds) =>
             /\ Len(seq') = Len(seq) + 1
             /\ SubSeq(seq', 1, Len(seq)) = seq
             /\ seq'[Len(seq')].kind = "_NBuildRule"
             /\ seq'[Len(seq')].name = lastCall'.name
             /\ seq'[Len(seq')].executable = lastCall'.executable
             /\ cmds'[lastCall'.name] = seq'[Len(seq')]
       /\ (lastCall'.op = "build" /\ err' = "none") =>
             /\ SubSeq(seq', 1, Len(seq)) = seq
             /\ seq'[Len(seq')].kind = "_NBuild"
             /\ seq'[Len(seq')].rule = lastCall'.name
             /\ seq'[Len(seq')].implicit.items[1]
                   = seq[LatestRule(lastCall'.name, Len(seq) + 1)].executable_path]_vars

\* compile registered with cc and invoked, then registered again with tool
\* and invoked: the first edge still lists /usr/bin/cc, the second lists
\* tool
C20_Witness ==
    /\ Len(seq) = 9
    /\ seq[6].kind = "_NBuildRule" /\ seq[6].name = "compile"
    /\ seq[6].executable_path = "/usr/bin/cc"
    /\ seq[7].kind = "_NBuild" /\ seq[7].rule = "compile"
    /\ seq[7].implicit.items = <<"/usr/bin/cc">>
    /\ seq[8].kind = "_NBuildRule" /\ seq[8].name = "compile"
    /\ seq[8].executable_path = "tool"
    /\ seq[9].kind = "_NBuild" /\ seq[9].rule = "compile"
    /\ seq[9].implicit.items = <<"tool">>
    /\ cmds["compile"] = seq[8]

====
